---- MODULE Spec2Model ----
(***************************************************************************)
(* The YAML tooling of talm: the structural differ (DiffYAMLs and the      *)
(* compare* functions of package yamltools), the comment capture / apply   *)
(* pass (CopyComments, ApplyComments, mergeComments) and the loop of       *)
(* applyPatchesAndRenderConfig that drives them; Render and the package   *)
(* variables it writes; the modeline (ParseModeline, GenerateModeline)     *)
(* and processModelineAndUpdateGlobals with the loop of its callers.       *)
(*                                                                         *)
(* A Go string is a sequence of one-character strings, so that             *)
(* concatenation, strings.TrimSpace and path building are computed and     *)
(* not assumed.  A *yaml.Node is a record with the fields of yaml.Node     *)
(* the code reads: Kind, Value, Content and the three comment fields; a    *)
(* mapping keeps its children as yaml.v3 does, key and value alternating   *)
(* in Content.  Nil is the nil pointer.                                    *)
(***************************************************************************)
EXTENDS Integers, Sequences, FiniteSets, TLC

VARIABLES
    original,   \* DiffYAMLs' first argument, parsed: a document node
    modified,   \* DiffYAMLs' second argument, parsed: a document node
    diff,       \* what compareNodes returned to DiffYAMLs (Nil before the call)
    targetNode, \* applyPatchesAndRenderConfig: the parsed target, shared by the loop
    sourceNode, \* the fragment parsed in the current iteration of the loop
    dstPaths,   \* the comment map of the current iteration: path -> source node
    idx,        \* the number of fragments the loop has finished
    output,     \* the document the encoder wrote (Nil before)
    pc,         \* position in DiffYAMLs / in applyPatchesAndRenderConfig
    fn,         \* the function that runs the pass: applyPatchesAndRenderConfig or render
    opts,       \* its options; Full is the only one the pass reads
    configOrigin,   \* the serialized baseline configuration
    configFull,     \* the serialized target configuration
    configPatches,  \* the rendered fragments, in the order of the template files
    err,        \* the error the function returned
    Disks,      \* the package-level map helmEngine.Disks
    LookupFunc, \* the package-level variable helmEngine.LookupFunc
    calls,      \* the invocations of Render: position and what each one rendered with
    written,    \* the keys and arrays the line was written from
    line,       \* ParseModeline's argument
    config,     \* the *Config ParseModeline returned
    parseErr,   \* the error ParseModeline returned
    args,       \* the nodes and endpoints given on the command line
    GlobalArgs, \* the package-level GlobalArgs: Nodes and Endpoints
    configFiles,    \* the files of the command (-f), each the lines it holds
    flags,      \* nodesFromArgs, endpointsFromArgs and owerwrite of the command
    filesDone,  \* the number of files the command's loop has finished
    cmdErr      \* the error processModelineAndUpdateGlobals returned last

diffVars == <<original, modified, diff>>
loopVars == <<targetNode, sourceNode, dstPaths, idx, output>>
renderVars == <<fn, opts, configOrigin, configFull, configPatches, err>>
sharedVars == <<Disks, LookupFunc, calls>>
globalVars == <<args, GlobalArgs, configFiles, flags, filesDone, cmdErr>>
modelineVars == <<written, line, config, parseErr, globalVars>>

vars == <<diffVars, loopVars, pc, renderVars, sharedVars, modelineVars>>

\* ---------------------------------------------------------------- bounds

\* Nodes (mappings, sequences, scalars; key nodes not counted) of the two
\* documents handed to one DiffYAMLs call, taken together.
MaxNodes == 5

\* Nodes of one document that is diffed against itself.
MaxTree == 4

\* Fragments handed to one run of the comment loop.
MaxFragments == 2

\* Calls of Render made in one process.
MaxCalls == 2

\* Parts (key=value) of one modeline.
MaxParts == 2

\* Files (-f) of one command.
MaxFiles == 2

\* Nodes of the tree of one text given to DiffYAMLs as bytes.
MaxText == 2

\* ----------------------------------------------------------------- nodes

Nil == [Kind |-> "nil"]

\* the nil error
NoError == "nil"

MappingNode == "mapping"
SequenceNode == "sequence"
ScalarNode == "scalar"
DocumentNode == "document"

NewNode(kind, value, content) ==
    [Kind |-> kind, Value |-> value, Content |-> content,
     HeadComment |-> <<>>, LineComment |-> <<>>, FootComment |-> <<>>]

Scalar(v) == NewNode(ScalarNode, v, <<>>)

\* yaml.Unmarshal into a yaml.Node wraps the root in a document node.
Document(root) == NewNode(DocumentNode, <<>>, <<root>>)

\* The key names and scalar values of the documents that are enumerated.
Keys == {<<"a">>, <<"b">>}
Values == {<<"1">>, <<"2">>}

\* injective key sequences of length len: a parsed mapping has unique keys
KeySeqs(len) ==
    {ks \in [1..len -> Keys] : \A i, j \in 1..len : ks[i] = ks[j] => i = j}

MappingOf(ks, vs) ==
    NewNode(MappingNode, <<>>,
            [i \in 1..(2 * Len(ks)) |->
                IF i % 2 = 1 THEN Scalar(ks[(i + 1) \div 2]) ELSE vs[i \div 2]])

SequenceOf(vs) == NewNode(SequenceNode, <<>>, vs)

RECURSIVE TreesOfWeight(_)
RECURSIVE Forests(_, _)

\* the sequences of len trees that have n nodes together
Forests(n, len) ==
    IF len = 0
    THEN (IF n = 0 THEN {<<>>} ELSE {})
    ELSE UNION {{<<t>> \o f : t \in TreesOfWeight(i), f \in Forests(n - i, len - 1)} :
                    i \in 1..(n - len + 1)}

\* the trees of exactly n nodes
TreesOfWeight(n) ==
    IF n = 1
    THEN {Scalar(v) : v \in Values} \cup {MappingOf(<<>>, <<>>), SequenceOf(<<>>)}
    ELSE UNION {{SequenceOf(f) : f \in Forests(n - 1, len)}
                \cup {MappingOf(ks, f) : ks \in KeySeqs(len), f \in Forests(n - 1, len)} :
                    len \in 1..(n - 1)}

\* ------------------------------------------------------------ the differ

\* nodeMap: the value node of each scalar key; a later pair overwrites an
\* earlier one of the same key.
nodeMap(node) ==
    LET scalarKeys == {i \in 1..Len(node.Content) :
                    i % 2 = 1 /\ i + 1 <= Len(node.Content)
                    /\ node.Content[i].Kind = ScalarNode}
        keys == {node.Content[i].Value : i \in scalarKeys}
        last(k) == CHOOSE i \in scalarKeys : node.Content[i].Value = k
                        /\ \A j \in scalarKeys : node.Content[j].Value = k => j <= i
    IN [k \in keys |-> node.Content[last(k) + 1]]

\* nodeSet with a loop that stops one item early
nodeSetSkipsLast(node) == {node.Content[i].Value : i \in 1..(Len(node.Content) - 1)}

\* nodeSet: the Values of the items of a sequence node
nodeSet(node) == {node.Content[i].Value : i \in 1..Len(node.Content)}

\* createDeleteNode with another directive
createDeleteNodeRemove ==
    NewNode(MappingNode, <<>>, <<Scalar(<<"$", "p", "a", "t", "c", "h">>),
                                 Scalar(<<"r", "e", "m", "o", "v", "e">>)>>)

createDeleteNode ==
    NewNode(MappingNode, <<>>, <<Scalar(<<"$", "p", "a", "t", "c", "h">>),
                                 Scalar(<<"d", "e", "l", "e", "t", "e">>)>>)

\* addNodeToDiff appends a fresh key node and the node to diff.Content
addNodeToDiff(content, key, node) == content \o <<Scalar(key), node>>

Lookup(m, k) == IF k \in DOMAIN m THEN m[k] ELSE Nil

RECURSIVE compareNodes(_, _)
RECURSIVE firstPass(_, _, _, _)
RECURSIVE nestedDelete(_, _, _)
RECURSIVE secondPass(_, _, _, _, _)

\* firstPass without its else branch: a key only modified has is not added
firstPassDropsAdditions(origMap, mod, i, content) ==
    IF i > Len(mod.Content)
    THEN content
    ELSE LET key == mod.Content[i].Value
             modVal == Lookup(nodeMap(mod), key)
         IN IF key \in DOMAIN origMap
            THEN LET changedNode == compareNodes(origMap[key], modVal)
                 IN firstPass(origMap, mod, i + 2,
                              IF changedNode # Nil
                              THEN addNodeToDiff(content, key, changedNode)
                              ELSE content)
            ELSE firstPass(origMap, mod, i + 2, content)

\* first loop of compareMappingNodes, from index i of mod.Content on
firstPass(origMap, mod, i, content) ==
    IF i > Len(mod.Content)
    THEN content
    ELSE LET key == mod.Content[i].Value
             modVal == Lookup(nodeMap(mod), key)
         IN IF key \in DOMAIN origMap
            THEN LET changedNode == compareNodes(origMap[key], modVal)
                 IN firstPass(origMap, mod, i + 2,
                              IF changedNode # Nil
                              THEN addNodeToDiff(content, key, changedNode)
                              ELSE content)
            ELSE firstPass(origMap, mod, i + 2, addNodeToDiff(content, key, modVal))

\* processedKeys never written
processedKeysNone(origMap, mod) == {}

\* the keys the first loop marks in processedKeys
processedKeys(origMap, mod) ==
    {mod.Content[i].Value : i \in {j \in 1..Len(mod.Content) : j % 2 = 1}}
        \cap DOMAIN origMap

\* inner loop of the second pass: one deletion directive per key of origVal
nestedDelete(origVal, j, content) ==
    IF j > Len(origVal.Content)
    THEN content
    ELSE nestedDelete(origVal, j + 2,
                      addNodeToDiff(content, origVal.Content[j].Value, createDeleteNode))

\* secondPass with one blanket directive for a removed mapping too
secondPassFlat(orig, origMap, processed, i, content) ==
    IF i > Len(orig.Content)
    THEN content
    ELSE LET key == orig.Content[i].Value
         IN IF key \notin processed
            THEN secondPass(orig, origMap, processed, i + 2,
                            addNodeToDiff(content, key, createDeleteNode))
            ELSE secondPass(orig, origMap, processed, i + 2, content)

\* second loop of compareMappingNodes, from index i of orig.Content on
secondPass(orig, origMap, processed, i, content) ==
    IF i > Len(orig.Content)
    THEN content
    ELSE LET key == orig.Content[i].Value
         IN IF key \notin processed
            THEN LET origVal == origMap[key]
                 IN IF origVal.Kind = MappingNode
                    THEN secondPass(orig, origMap, processed, i + 2,
                             addNodeToDiff(content, key,
                                 NewNode(MappingNode, <<>>, nestedDelete(origVal, 1, <<>>))))
                    ELSE secondPass(orig, origMap, processed, i + 2,
                             addNodeToDiff(content, key, createDeleteNode))
            ELSE secondPass(orig, origMap, processed, i + 2, content)

\* compareMappingNodes without the second pass (no deletion directives)
compareMappingNodesNoDeletes(orig, mod) ==
    LET content == firstPass(nodeMap(orig), mod, 1, <<>>)
    IN IF Len(content) = 0 THEN Nil ELSE NewNode(MappingNode, <<>>, content)

compareMappingNodes(orig, mod) ==
    LET origMap == nodeMap(orig)
        first == firstPass(origMap, mod, 1, <<>>)
        content == secondPass(orig, origMap, processedKeys(origMap, mod), 1, first)
    IN IF Len(content) = 0 THEN Nil ELSE NewNode(MappingNode, <<>>, content)

\* compareSequenceNodes comparing index by index and appending the surplus
compareSequenceNodesByIndex(orig, mod) ==
    LET minLength == IF Len(orig.Content) < Len(mod.Content)
                     THEN Len(orig.Content) ELSE Len(mod.Content)
        changed == [i \in 1..minLength |-> compareNodes(orig.Content[i], mod.Content[i])]
        content == SelectSeq(changed, LAMBDA c : c # Nil)
                      \o SubSeq(mod.Content, minLength + 1, Len(mod.Content))
    IN IF Len(content) = 0 THEN Nil ELSE NewNode(SequenceNode, <<>>, content)

compareSequenceNodes(orig, mod) ==
    LET origSet == nodeSet(orig)
        content == SelectSeq(mod.Content, LAMBDA modItem : modItem.Value \notin origSet)
    IN IF Len(content) = 0 THEN Nil ELSE NewNode(SequenceNode, <<>>, content)

\* compareNodes reporting no difference across kinds
compareNodesSameKindOnly(orig, mod) ==
    IF orig.Kind # mod.Kind
    THEN Nil
    ELSE CASE orig.Kind = MappingNode -> compareMappingNodes(orig, mod)
           [] orig.Kind = SequenceNode -> compareSequenceNodes(orig, mod)
           [] orig.Kind = ScalarNode -> (IF orig.Value # mod.Value THEN mod ELSE Nil)
           [] OTHER -> Nil

compareNodes(orig, mod) ==
    IF orig.Kind # mod.Kind
    THEN mod
    ELSE CASE orig.Kind = MappingNode -> compareMappingNodes(orig, mod)
           [] orig.Kind = SequenceNode -> compareSequenceNodes(orig, mod)
           [] orig.Kind = ScalarNode -> (IF orig.Value # mod.Value THEN mod ELSE Nil)
           [] OTHER -> Nil

RECURSIVE clearComments(_)
clearComments(node) ==
    [node EXCEPT !.HeadComment = <<>>, !.LineComment = <<>>, !.FootComment = <<>>,
                 !.Content = [i \in 1..Len(node.Content) |-> clearComments(node.Content[i])]]

\* ---------------------------------------------------------- the comments

\* the characters strings.TrimSpace strips
WhiteSpace == {" ", "\t", "\n", "\r"}

RECURSIVE TrimLeft(_)
TrimLeft(str) ==
    IF str # <<>> /\ Head(str) \in WhiteSpace THEN TrimLeft(Tail(str)) ELSE str

RECURSIVE TrimRight(_)
TrimRight(str) ==
    IF str # <<>> /\ str[Len(str)] \in WhiteSpace
    THEN TrimRight(SubSeq(str, 1, Len(str) - 1))
    ELSE str

TrimSpace(str) == TrimRight(TrimLeft(str))

\* mergeComments keeping only the new comment when both are set
mergeCommentsOverwrites(oldComment, newComment) ==
    IF newComment = <<>> THEN oldComment ELSE newComment

\* mergeComments keeping only the old comment when both are set
mergeCommentsKeepsOld(oldComment, newComment) ==
    IF oldComment = <<>> THEN newComment ELSE oldComment

mergeComments(oldComment, newComment) ==
    IF oldComment = <<>>
    THEN newComment
    ELSE IF newComment = <<>>
         THEN oldComment
         ELSE TrimSpace(oldComment) \o <<"\n", "\n">> \o TrimSpace(newComment)

\* string(i) of an int i: the one character whose code point is i
Runes == <<"\\x00", "\\x01", "\\x02", "\\x03", "\\x04", "\\x05", "\\x06", "\\x07">>
RuneString(i) == <<Runes[i + 1]>>

\* newPath of the i-th child (from 1) of node, whose own path is path
childPath(node, path, i) ==
    IF node.Kind = SequenceNode
    THEN path \o <<"/">> \o RuneString(i - 1)
    ELSE path \o <<"/">> \o node.Content[i].Value

NoPaths == [p \in {} |-> Nil]

\* HasComment looking at the head comment only
HasCommentHeadOnly(node) == node.HeadComment # <<>>

HasComment(node) ==
    node.HeadComment # <<>> \/ node.LineComment # <<>> \/ node.FootComment # <<>>

RECURSIVE CopyComments(_, _, _)
RECURSIVE copyChildren(_, _, _, _)

\* the loop of CopyComments over srcNode.Content, from child i on
copyChildren(srcNode, path, i, paths) ==
    IF i > Len(srcNode.Content)
    THEN paths
    ELSE copyChildren(srcNode, path, i + 1,
                      CopyComments(srcNode.Content[i], childPath(srcNode, path, i), paths))

\* CopyComments (its dstNode parameter is never read): the map after the walk
CopyComments(srcNode, path, paths) ==
    copyChildren(srcNode, path, 1,
                 IF HasComment(srcNode)
                 THEN [q \in DOMAIN paths \cup {path} |->
                          IF q = path THEN srcNode ELSE paths[q]]
                 ELSE paths)

RECURSIVE ApplyComments(_, _, _)

\* ApplyComments taking the line comment from the source's head comment
ApplyCommentsCrossed(dstNode, path, paths) ==
    LET merged ==
            IF path \in DOMAIN paths
            THEN [dstNode EXCEPT
                    !.HeadComment = mergeComments(dstNode.HeadComment, paths[path].HeadComment),
                    !.LineComment = mergeComments(dstNode.LineComment, paths[path].HeadComment),
                    !.FootComment = mergeComments(dstNode.FootComment, paths[path].FootComment)]
            ELSE dstNode
    IN [merged EXCEPT !.Content =
            [i \in 1..Len(dstNode.Content) |->
                ApplyComments(dstNode.Content[i], childPath(dstNode, path, i), paths)]]

\* ApplyComments: dstNode after the walk
ApplyComments(dstNode, path, paths) ==
    LET merged ==
            IF path \in DOMAIN paths
            THEN [dstNode EXCEPT
                    !.HeadComment = mergeComments(dstNode.HeadComment, paths[path].HeadComment),
                    !.LineComment = mergeComments(dstNode.LineComment, paths[path].LineComment),
                    !.FootComment = mergeComments(dstNode.FootComment, paths[path].FootComment)]
            ELSE dstNode
    IN [merged EXCEPT !.Content =
            [i \in 1..Len(dstNode.Content) |->
                ApplyComments(dstNode.Content[i], childPath(dstNode, path, i), paths)]]

\* ------------------------------------------------------------------ texts

\* A YAML text is the node yaml.Unmarshal makes of it, or it is malformed.
\* The encoder's output is the text of the node it was given.
Text(node) == [ok |-> TRUE, node |-> node]
Malformed == [ok |-> FALSE, node |-> Nil]

\* the zero yaml.Node: what Unmarshal leaves of a text without a document
ZeroNode == NewNode("zero", <<>>, <<>>)
EmptyText == Text(ZeroNode)

ParseError == "yaml: did not find expected node content"
EncodeError == "yaml: cannot encode"

\* yaml.Unmarshal([]byte(text), &node)
Unmarshal(text) ==
    IF text.ok
    THEN [node |-> text.node, err |-> NoError]
    ELSE [node |-> ZeroNode, err |-> ParseError]

\* ------------------------------------------ the variables of the other parts

\* no render pass is running
NoRender ==
    /\ fn = "" /\ opts = [Full |-> FALSE]
    /\ configOrigin = EmptyText /\ configFull = EmptyText /\ configPatches = <<>>
    /\ err = NoError

\* helmEngine.Disks as the package is loaded: an empty map
NoDisks == [d \in {} |-> 0]

\* helmEngine.LookupFunc as the package is loaded: the function of no client
NoClient == 0

\* no Render call was made
NoInvocations == Disks = NoDisks /\ LookupFunc = NoClient /\ calls = <<>>

\* no command that reads modelines has started
NoArgs == [Nodes |-> <<>>, Endpoints |-> <<>>]
NoFlags == [nodesFromArgs |-> FALSE, endpointsFromArgs |-> FALSE, owerwrite |-> FALSE]
NoGlobals ==
    /\ args = NoArgs /\ GlobalArgs = NoArgs /\ configFiles = <<>>
    /\ flags = NoFlags /\ filesDone = 0 /\ cmdErr = NoError

\* ParseModeline was not called
NoModeline ==
    /\ written = <<>> /\ line = <<>> /\ config = Nil /\ parseErr = NoError
    /\ NoGlobals

\* --------------------------------------------------- DiffYAMLs, on its own

\* The two documents of a call: any two of at most MaxNodes nodes together,
\* or one document of at most MaxTree nodes given twice.
InitDiff ==
    /\ \/ \E a \in 1..(MaxNodes - 1) : \E b \in 1..(MaxNodes - a) :
             /\ original \in {Document(t) : t \in TreesOfWeight(a)}
             /\ modified \in {Document(t) : t \in TreesOfWeight(b)}
       \/ \E n \in 1..MaxTree :
             /\ original \in {Document(t) : t \in TreesOfWeight(n)}
             /\ modified = original
    /\ diff = Nil
    /\ targetNode = Nil /\ sourceNode = Nil /\ dstPaths = NoPaths /\ idx = 0
    /\ output = Nil
    /\ pc = "start"
    /\ NoRender /\ NoInvocations /\ NoModeline

\* DiffYAMLs up to the encoding of the result
DiffYAMLs ==
    /\ pc = "start"
    /\ diff' = compareNodes(clearComments(original).Content[1],
                            clearComments(modified).Content[1])
    /\ pc' = "diffed"
    /\ UNCHANGED <<original, modified, targetNode, sourceNode, dstPaths, idx, output>>
    /\ UNCHANGED <<renderVars, sharedVars, modelineVars>>

NextDiff == DiffYAMLs

SpecDiff == InitDiff /\ [][NextDiff]_vars

\* ------------------------------ the comment loop of applyPatchesAndRenderConfig

\* The comment texts of the fragments, as yaml.v3 hands them over: from the
\* '#' to the end of the line, a trailing blank included.
Comments == {<<"#", "f">>, <<"#", "s", " ">>}

\* child-index chains of the documents of the loop (document, root, key or value)
Seq3 == {<<>>, <<1>>, <<1, 1>>, <<1, 2>>}

\* The documents of the loop: one key with a scalar under it.
LoopDocuments ==
    {Document(MappingOf(<<k>>, <<Scalar(v)>>)) : k \in Keys, v \in Values}

\* the positions of the nodes of a tree: chains of child indices from the root
RECURSIVE Positions(_)
Positions(n) ==
    {<<>>} \cup UNION {{<<i>> \o p : p \in Positions(n.Content[i])} :
                        i \in 1..Len(n.Content)}

RECURSIVE NodeAt(_, _)
NodeAt(n, pos) == IF pos = <<>> THEN n ELSE NodeAt(n.Content[Head(pos)], Tail(pos))

\* a tree with the node at pos replaced
RECURSIVE WithNodeAt(_, _, _)
WithNodeAt(n, pos, new) ==
    IF pos = <<>>
    THEN new
    ELSE [n EXCEPT !.Content[Head(pos)] = WithNodeAt(n.Content[Head(pos)], Tail(pos), new)]

Channels == {"HeadComment", "LineComment", "FootComment"}

\* The fragments: a document without comments, or with one comment on one
\* channel of one of its nodes.
Fragments ==
    LoopDocuments \cup
    {WithNodeAt(d, pos, [NodeAt(d, pos) EXCEPT ![ch] = c]) :
        <<d, pos, ch, c>> \in
            {q \in LoopDocuments \X Seq3 \X Channels \X Comments : q[2] \in Positions(q[1])}}

\* The target is parsed from a document written without comments: the diff
\* DiffYAMLs encoded, or the configuration serialized with CommentsDisabled.
InitComments ==
    /\ original = Nil /\ modified = Nil /\ diff = Nil
    /\ targetNode \in LoopDocuments
    /\ sourceNode = Nil /\ dstPaths = NoPaths /\ idx = 0
    /\ output = Nil
    /\ pc = "loop"
    /\ NoRender /\ NoInvocations /\ NoModeline

\* one iteration up to CopyComments: the fragment is parsed and a fresh map filled
Capture ==
    /\ pc = "loop" /\ idx < MaxFragments
    /\ \E f \in Fragments :
          /\ sourceNode' = f
          /\ dstPaths' = CopyComments(f, <<>>, NoPaths)
    /\ pc' = "copied"
    /\ UNCHANGED <<original, modified, diff, targetNode, idx, output>>
    /\ UNCHANGED <<renderVars, sharedVars, modelineVars>>

\* Apply putting the fragment, with the comments merged, in the target's place
ApplyTakesSource ==
    /\ pc = "copied"
    /\ targetNode' = ApplyComments(
                         [sourceNode EXCEPT !.HeadComment = targetNode.HeadComment,
                                            !.LineComment = targetNode.LineComment,
                                            !.FootComment = targetNode.FootComment],
                         <<>>, dstPaths)
    /\ idx' = idx + 1
    /\ pc' = "loop"
    /\ UNCHANGED <<original, modified, diff, sourceNode, dstPaths, output>>
    /\ UNCHANGED <<renderVars, sharedVars, modelineVars>>

\* the rest of the iteration: ApplyComments on the shared target
Apply ==
    /\ pc = "copied"
    /\ targetNode' = ApplyComments(targetNode, <<>>, dstPaths)
    /\ idx' = idx + 1
    /\ pc' = "loop"
    /\ UNCHANGED <<original, modified, diff, sourceNode, dstPaths, output>>
    /\ UNCHANGED <<renderVars, sharedVars, modelineVars>>

\* after the last fragment the target is encoded
Encode ==
    /\ pc = "loop"
    /\ output' = targetNode
    /\ pc' = "done"
    /\ UNCHANGED <<original, modified, diff, targetNode, sourceNode, dstPaths, idx>>
    /\ UNCHANGED <<renderVars, sharedVars, modelineVars>>

NextComments == Capture \/ Apply \/ Encode

SpecComments == InitComments /\ [][NextComments]_vars

\* -------------------------------------------------- the render-and-reduce pass

\* The pass is written twice: in applyPatchesAndRenderConfig of package engine
\* and in render of package commands.
Callers == {"applyPatchesAndRenderConfig", "render"}

\* The serialized configurations: a document of one key, or a malformed text.
ConfigTexts == {Malformed} \cup {Text(d) : d \in LoopDocuments}

\* The fragments of a pass: 'k: 1' bare, with a head comment on its key or with
\* a line comment on its scalar, or a malformed text.
PatchDocuments ==
    {f \in Fragments :
        /\ NodeAt(f, <<1, 2>>).Value = <<"1">>
        /\ ~HasComment(f) /\ ~HasComment(NodeAt(f, <<1>>))
        /\ NodeAt(f, <<1, 1>>).LineComment = <<>> /\ NodeAt(f, <<1, 1>>).FootComment = <<>>
        /\ NodeAt(f, <<1, 2>>).HeadComment = <<>> /\ NodeAt(f, <<1, 2>>).FootComment = <<>>
        /\ NodeAt(f, <<1, 2>>).LineComment \in {<<>>, <<"#", "f">>}}

PatchTexts == {Malformed} \cup {Text(f) : f \in PatchDocuments}

\* DiffYAMLs as its callers see it: the nodes it parsed, the diff, the bytes
\* and the error it returns; encodeErr is what its encoder answers
DiffYAMLsReturn(originalText, modifiedText, encodeErr) ==
    LET o == Unmarshal(originalText)
        m == Unmarshal(modifiedText)
        d == compareNodes(clearComments(o.node).Content[1],
                          clearComments(m.node).Content[1])
    IN IF o.err # NoError
       THEN [origNode |-> o.node, modNode |-> Nil, diff |-> Nil,
             bytes |-> EmptyText, err |-> o.err]
       ELSE IF m.err # NoError
            THEN [origNode |-> o.node, modNode |-> m.node, diff |-> Nil,
                  bytes |-> EmptyText, err |-> m.err]
            ELSE IF d = Nil
                 THEN [origNode |-> o.node, modNode |-> m.node, diff |-> Nil,
                       bytes |-> EmptyText, err |-> NoError]
                 ELSE IF encodeErr # NoError
                      THEN [origNode |-> o.node, modNode |-> m.node, diff |-> d,
                            bytes |-> EmptyText, err |-> encodeErr]
                      ELSE [origNode |-> o.node, modNode |-> m.node, diff |-> d,
                            bytes |-> Text(Document(d)), err |-> NoError]

\* The arguments of a pass.  With Full the baseline is never serialized.
InitRender ==
    /\ fn \in Callers
    /\ opts \in [Full : BOOLEAN]
    /\ configFull \in ConfigTexts
    /\ configOrigin \in (IF opts.Full THEN {EmptyText} ELSE ConfigTexts)
    /\ configPatches \in UNION {[1..n -> PatchTexts] : n \in 0..MaxFragments}
    /\ err = NoError
    /\ original = Nil /\ modified = Nil /\ diff = Nil
    /\ targetNode = Nil /\ sourceNode = Nil /\ dstPaths = NoPaths /\ idx = 0
    /\ output = Nil
    /\ pc = "begin"
    /\ NoInvocations /\ NoModeline

\* a document with the pairs of its root mapping in any order
KeyOrders(doc) ==
    IF doc.Kind = DocumentNode /\ doc.Content[1].Kind = MappingNode
    THEN LET root == doc.Content[1]
             n == Len(root.Content) \div 2
         IN {[doc EXCEPT !.Content[1].Content =
                    [i \in 1..(2 * n) |->
                        root.Content[IF i % 2 = 1 THEN 2 * perm[(i + 1) \div 2] - 1
                                                  ELSE 2 * perm[i \div 2]]]] :
                perm \in Permutations(1..n)}
    ELSE {doc}

\* ComputeTarget over a differ that ranges over a Go map of the keys: the
\* order of the keys of the patch is any
ComputeTargetAnyKeyOrder ==
    /\ pc = "begin"
    /\ \E encodeErr \in {NoError, EncodeError} :
          LET r == IF opts.Full
                   THEN [origNode |-> Nil, modNode |-> Nil, diff |-> Nil,
                         bytes |-> configFull, err |-> NoError]
                   ELSE DiffYAMLsReturn(configOrigin, configFull, encodeErr)
              u == Unmarshal(r.bytes)
          IN /\ original' = r.origNode /\ modified' = r.modNode /\ diff' = r.diff
             /\ IF r.err # NoError
                THEN /\ err' = (IF fn = "render" THEN NoError ELSE r.err)
                     /\ pc' = "returned"
                     /\ UNCHANGED targetNode
                ELSE IF u.err # NoError
                     THEN err' = u.err /\ pc' = "returned" /\ UNCHANGED targetNode
                     ELSE /\ targetNode' \in (IF opts.Full THEN {u.node} ELSE KeyOrders(u.node))
                          /\ pc' = "loop" /\ UNCHANGED err
    /\ UNCHANGED <<sourceNode, dstPaths, idx, output>>
    /\ UNCHANGED <<fn, opts, configOrigin, configFull, configPatches>>
    /\ UNCHANGED <<sharedVars, modelineVars>>

\* the target is chosen (the full configuration or the diff) and parsed
ComputeTarget ==
    /\ pc = "begin"
    /\ \E encodeErr \in {NoError, EncodeError} :
          LET r == IF opts.Full
                   THEN [origNode |-> Nil, modNode |-> Nil, diff |-> Nil,
                         bytes |-> configFull, err |-> NoError]
                   ELSE DiffYAMLsReturn(configOrigin, configFull, encodeErr)
              u == Unmarshal(r.bytes)
          IN /\ original' = r.origNode /\ modified' = r.modNode /\ diff' = r.diff
             /\ IF r.err # NoError
                THEN \* render returns nil here, applyPatchesAndRenderConfig the error
                     /\ err' = (IF fn = "render" THEN NoError ELSE r.err)
                     /\ pc' = "returned"
                     /\ UNCHANGED targetNode
                ELSE IF u.err # NoError
                     THEN err' = u.err /\ pc' = "returned" /\ UNCHANGED targetNode
                     ELSE targetNode' = u.node /\ pc' = "loop" /\ UNCHANGED err
    /\ UNCHANGED <<sourceNode, dstPaths, idx, output>>
    /\ UNCHANGED <<fn, opts, configOrigin, configFull, configPatches>>
    /\ UNCHANGED <<sharedVars, modelineVars>>

\* CaptureFragment passing over a fragment that does not parse
CaptureFragmentSkips ==
    /\ pc = "loop" /\ idx < Len(configPatches)
    /\ LET u == Unmarshal(configPatches[idx + 1])
       IN IF u.err # NoError
          THEN /\ idx' = idx + 1
               /\ UNCHANGED <<sourceNode, dstPaths, pc>>
          ELSE /\ sourceNode' = u.node
               /\ dstPaths' = CopyComments(u.node, <<>>, NoPaths)
               /\ pc' = "copied"
               /\ UNCHANGED idx
    /\ UNCHANGED <<diffVars, targetNode, output, err>>
    /\ UNCHANGED <<fn, opts, configOrigin, configFull, configPatches>>
    /\ UNCHANGED <<sharedVars, modelineVars>>

\* CaptureFragment with one map made before the loop and filled by every fragment
CaptureFragmentKeepsMap ==
    /\ pc = "loop" /\ idx < Len(configPatches)
    /\ LET u == Unmarshal(configPatches[idx + 1])
       IN IF u.err # NoError
          THEN /\ err' = u.err /\ pc' = "returned"
               /\ UNCHANGED <<sourceNode, dstPaths>>
          ELSE /\ sourceNode' = u.node
               /\ dstPaths' = CopyComments(u.node, <<>>, dstPaths)
               /\ pc' = "copied"
               /\ UNCHANGED err
    /\ UNCHANGED <<diffVars, targetNode, idx, output>>
    /\ UNCHANGED <<fn, opts, configOrigin, configFull, configPatches>>
    /\ UNCHANGED <<sharedVars, modelineVars>>

\* one iteration of the loop up to CopyComments: the next fragment is parsed,
\* and a fresh map filled from it
CaptureFragment ==
    /\ pc = "loop" /\ idx < Len(configPatches)
    /\ LET u == Unmarshal(configPatches[idx + 1])
       IN IF u.err # NoError
          THEN /\ err' = u.err /\ pc' = "returned"
               /\ UNCHANGED <<sourceNode, dstPaths>>
          ELSE /\ sourceNode' = u.node
               /\ dstPaths' = CopyComments(u.node, <<>>, NoPaths)
               /\ pc' = "copied"
               /\ UNCHANGED err
    /\ UNCHANGED <<diffVars, targetNode, idx, output>>
    /\ UNCHANGED <<fn, opts, configOrigin, configFull, configPatches>>
    /\ UNCHANGED <<sharedVars, modelineVars>>

\* EncodeTarget writing the target as it was before the loop
EncodeTargetWithoutComments ==
    /\ pc = "loop" /\ idx = Len(configPatches)
    /\ \E encodeErr \in {NoError, EncodeError} :
          /\ err' = encodeErr
          /\ output' = (IF encodeErr = NoError THEN clearComments(targetNode) ELSE Nil)
    /\ pc' = "returned"
    /\ UNCHANGED <<diffVars, targetNode, sourceNode, dstPaths, idx>>
    /\ UNCHANGED <<fn, opts, configOrigin, configFull, configPatches>>
    /\ UNCHANGED <<sharedVars, modelineVars>>

\* after the last fragment the target is encoded and returned (or printed);
\* encodeErr is what the encoder answers
EncodeTarget ==
    /\ pc = "loop" /\ idx = Len(configPatches)
    /\ \E encodeErr \in {NoError, EncodeError} :
          /\ err' = encodeErr
          /\ output' = (IF encodeErr = NoError THEN targetNode ELSE Nil)
    /\ pc' = "returned"
    /\ UNCHANGED <<diffVars, targetNode, sourceNode, dstPaths, idx>>
    /\ UNCHANGED <<fn, opts, configOrigin, configFull, configPatches>>
    /\ UNCHANGED <<sharedVars, modelineVars>>

NextRender == ComputeTarget \/ CaptureFragment \/ Apply \/ EncodeTarget

SpecRender == InitRender /\ [][NextRender]_vars

\* ------------------------------------------------- DiffYAMLs, from its bytes

PanicIndexOutOfRange == "panic: runtime error: index out of range [0] with length 0"

\* The texts given to DiffYAMLs: a document of at most MaxText nodes, a text
\* without a document (zero bytes, or comments only), or a malformed text.
DiffTexts ==
    {Malformed, EmptyText}
    \cup {Text(Document(t)) : t \in UNION {TreesOfWeight(n) : n \in 1..MaxText}}

\* DiffYAMLs as a whole: origNode.Content[0] and modNode.Content[0] are taken
\* of whatever Unmarshal left, without a look at the length of Content
DiffYAMLsOutcome(originalText, modifiedText, encodeErr) ==
    LET o == Unmarshal(originalText)
        m == Unmarshal(modifiedText)
    IN IF o.err = NoError /\ m.err = NoError
          /\ (Len(o.node.Content) = 0 \/ Len(m.node.Content) = 0)
       THEN [origNode |-> o.node, modNode |-> m.node, diff |-> Nil,
             bytes |-> EmptyText, err |-> PanicIndexOutOfRange]
       ELSE DiffYAMLsReturn(originalText, modifiedText, encodeErr)

InitDiffTexts ==
    /\ fn = "DiffYAMLs"
    /\ opts = [Full |-> FALSE]
    /\ configOrigin \in DiffTexts
    /\ configFull \in DiffTexts
    /\ configPatches = <<>>
    /\ err = NoError
    /\ original = Nil /\ modified = Nil /\ diff = Nil
    /\ targetNode = Nil /\ sourceNode = Nil /\ dstPaths = NoPaths /\ idx = 0
    /\ output = Nil
    /\ pc = "begin"
    /\ NoInvocations /\ NoModeline

\* the call DiffYAMLs(configOrigin, configFull): it returns bytes and an
\* error, or the process panics
DiffYAMLsBytes ==
    /\ pc = "begin" /\ fn = "DiffYAMLs"
    /\ \E encodeErr \in {NoError, EncodeError} :
          LET r == DiffYAMLsOutcome(configOrigin, configFull, encodeErr)
          IN /\ original' = r.origNode /\ modified' = r.modNode /\ diff' = r.diff
             /\ IF r.err = PanicIndexOutOfRange
                THEN pc' = "panicked" /\ UNCHANGED <<output, err>>
                ELSE /\ pc' = "returned"
                     /\ err' = r.err
                     /\ output' = (IF r.err = NoError THEN r.bytes ELSE Nil)
    /\ UNCHANGED <<targetNode, sourceNode, dstPaths, idx>>
    /\ UNCHANGED <<fn, opts, configOrigin, configFull, configPatches>>
    /\ UNCHANGED <<sharedVars, modelineVars>>

NextDiffTexts == DiffYAMLsBytes

SpecDiffTexts == InitDiffTexts /\ [][NextDiffTexts]_vars

\* ------------------------------------------------- the paths of a whole tree

\* The documents whose paths are walked: every tree of at most MaxTree nodes,
\* the mappings of one key whose value is the key's own text, and the
\* mappings of two keys that each hold a mapping of one and the same key.
PathDocuments ==
    {Document(t) : t \in UNION {TreesOfWeight(n) : n \in 1..MaxTree}}
    \cup {Document(MappingOf(<<k>>, <<Scalar(k)>>)) : k \in Keys}
    \cup {Document(MappingOf(ks, <<MappingOf(<<k>>, <<Scalar(v)>>),
                                   MappingOf(<<k>>, <<Scalar(w)>>)>>)) :
             ks \in KeySeqs(2), k \in Keys, v \in Values, w \in Values}

\* A fragment with a head comment on one of its nodes, and the target of the
\* same shape, parsed from a text written without comments.
InitPaths ==
    /\ \E d \in PathDocuments : \E pos \in Positions(d) :
          /\ configPatches = <<Text(WithNodeAt(d, pos,
                                   [NodeAt(d, pos) EXCEPT !.HeadComment = <<"#", "f">>]))>>
          /\ targetNode = d
    /\ fn \in Callers
    /\ opts = [Full |-> FALSE]
    /\ configOrigin = EmptyText /\ configFull = EmptyText
    /\ err = NoError
    /\ original = Nil /\ modified = Nil /\ diff = Nil
    /\ sourceNode = Nil /\ dstPaths = NoPaths /\ idx = 0
    /\ output = Nil
    /\ pc = "loop"
    /\ NoInvocations /\ NoModeline

NextPaths == CaptureFragment \/ Apply \/ EncodeTarget

SpecPaths == InitPaths /\ [][NextPaths]_vars

\* ------------------------------------------------- Render, called more than once

\* The device names the nodes report.
DeviceNames == {"sda", "sdb"}

\* Call i of Render talks to node i through its client c; devices are the
\* disks c.Disks answers with.  rendered is what eng.Render had in the
\* package-level variables when it expanded the templates of the call.
NewCall(i, offline, devices) ==
    [pc |-> "start", client |-> i, Offline |-> offline, devices |-> devices,
     rendered |-> [Disks |-> NoDisks, LookupFunc |-> NoClient]]

InitCalls ==
    /\ \E n \in 1..MaxCalls :
          calls \in {cs \in [1..n -> {NewCall(i, o, ds) : i \in 1..n, o \in BOOLEAN,
                                                          ds \in SUBSET DeviceNames}] :
                        \A i \in 1..n : cs[i].client = i}
    /\ Disks = NoDisks /\ LookupFunc = NoClient
    /\ original = Nil /\ modified = Nil /\ diff = Nil
    /\ targetNode = Nil /\ sourceNode = Nil /\ dstPaths = NoPaths /\ idx = 0
    /\ output = Nil
    /\ pc = "calls"
    /\ NoRender /\ NoModeline

\* a call is in the loop that stores its disks in helmEngine.Disks
Storing(i) == calls[i].pc = "storing"

\* Render is entered: offline it goes straight to the chart, otherwise it asks
\* the node for its disks
EnterRender ==
    /\ \E i \in DOMAIN calls :
          /\ calls[i].pc = "start"
          /\ calls' = [calls EXCEPT
                          ![i].pc = IF calls[i].Offline THEN "gathered" ELSE "storing"]
    /\ UNCHANGED <<Disks, LookupFunc>>
    /\ UNCHANGED <<diffVars, loopVars, pc, renderVars, modelineVars>>

\* helmEngine.Disks[d.DeviceName] = disk for every disk of the node, then
\* helmEngine.LookupFunc = newLookupFunction(ctx, c)
StoreDisks ==
    /\ \E i \in DOMAIN calls :
          /\ Storing(i)
          /\ Disks' = [d \in DOMAIN Disks \cup calls[i].devices |->
                          IF d \in calls[i].devices THEN calls[i].client ELSE Disks[d]]
          /\ LookupFunc' = calls[i].client
          /\ calls' = [calls EXCEPT ![i].pc = "gathered"]
    /\ UNCHANGED <<diffVars, loopVars, pc, renderVars, modelineVars>>

\* Two calls store into the one map at the same time: a data race on a Go
\* map, which the runtime may end with "fatal error: concurrent map writes".
ConcurrentMapWrites ==
    /\ \E i, j \in DOMAIN calls :
          /\ i # j
          /\ Storing(i) /\ calls[i].devices # {}
          /\ Storing(j) /\ calls[j].devices # {}
    /\ calls' = [k \in DOMAIN calls |-> [calls[k] EXCEPT !.pc = "crashed"]]
    /\ UNCHANGED <<Disks, LookupFunc>>
    /\ UNCHANGED <<diffVars, loopVars, pc, renderVars, modelineVars>>

\* eng.Render(chrt, rootValues): the templates are expanded with the package's
\* Disks and LookupFunc as they are now
RenderTemplates ==
    /\ \E i \in DOMAIN calls :
          /\ calls[i].pc = "gathered"
          /\ calls' = [calls EXCEPT
                          ![i].pc = "rendered",
                          ![i].rendered = [Disks |-> Disks, LookupFunc |-> LookupFunc]]
    /\ UNCHANGED <<Disks, LookupFunc>>
    /\ UNCHANGED <<diffVars, loopVars, pc, renderVars, modelineVars>>

NextCalls == EnterRender \/ StoreDisks \/ ConcurrentMapWrites \/ RenderTemplates

SpecCalls == InitCalls /\ [][NextCalls]_vars

\* ------------------------------------------------------------ the modeline

\* strings.Index(str, sep) + 1: where sep first starts in str, 0 when it does not
IndexOf(str, sep) ==
    LET starts == {i \in 1..(Len(str) - Len(sep) + 1) :
                       SubSeq(str, i, i + Len(sep) - 1) = sep}
    IN IF starts = {} THEN 0 ELSE CHOOSE i \in starts : \A j \in starts : i <= j

HasPrefix(str, prefix) ==
    Len(str) >= Len(prefix) /\ SubSeq(str, 1, Len(prefix)) = prefix

TrimPrefix(str, prefix) ==
    IF HasPrefix(str, prefix) THEN SubSeq(str, Len(prefix) + 1, Len(str)) ELSE str

\* strings.Split(str, sep), sep not empty
RECURSIVE Split(_, _)
Split(str, sep) ==
    LET i == IndexOf(str, sep)
    IN IF i = 0
       THEN <<str>>
       ELSE <<SubSeq(str, 1, i - 1)>> \o Split(SubSeq(str, i + Len(sep), Len(str)), sep)

\* strings.SplitN(str, sep, 2)
SplitN2(str, sep) ==
    LET i == IndexOf(str, sep)
    IN IF i = 0
       THEN <<str>>
       ELSE <<SubSeq(str, 1, i - 1), SubSeq(str, i + Len(sep), Len(str))>>

\* the JSON literal null: json.Unmarshal takes it for a nil slice, and as an
\* item of an array it leaves the string of that item empty
JSONNull == <<"n", "u", "l", "l">>

\* The JSON json.Unmarshal reads into a []string, for texts of brackets,
\* commas, quotes, blanks and plain characters (no escapes): the rest of a
\* string after its opening quote
RECURSIVE ReadString(_, _)
ReadString(str, acc) ==
    IF str = <<>>
    THEN [ok |-> FALSE, str |-> <<>>, rest |-> <<>>]
    ELSE IF Head(str) = "\""
         THEN [ok |-> TRUE, str |-> acc, rest |-> Tail(str)]
         ELSE ReadString(Tail(str), acc \o <<Head(str)>>)

\* the items of an array from an item on, up to the closing bracket and the end
RECURSIVE ReadItems(_, _)
ReadItems(str, acc) ==
    LET t == TrimLeft(str)
        r == IF HasPrefix(t, JSONNull)
             THEN [ok |-> TRUE, str |-> <<>>, rest |-> TrimPrefix(t, JSONNull)]
             ELSE ReadString(Tail(t), <<>>)
        u == TrimLeft(r.rest)
        bad == [ok |-> FALSE, arr |-> <<>>]
    IN IF t = <<>> \/ (Head(t) # "\"" /\ ~HasPrefix(t, JSONNull))
       THEN bad
       ELSE IF ~r.ok \/ u = <<>>
            THEN bad
            ELSE IF Head(u) = "]"
                 THEN (IF TrimLeft(Tail(u)) = <<>>
                       THEN [ok |-> TRUE, arr |-> Append(acc, r.str)]
                       ELSE bad)
                 ELSE IF Head(u) = ","
                      THEN ReadItems(Tail(u), Append(acc, r.str))
                      ELSE bad

\* json.Unmarshal([]byte(val), &arr) for arr []string
jsonUnmarshal(val) ==
    LET t == TrimLeft(val)
        u == TrimLeft(Tail(t))
        bad == [ok |-> FALSE, arr |-> <<>>]
    IN IF TrimRight(t) = JSONNull
       THEN [ok |-> TRUE, arr |-> <<>>]
       ELSE IF t = <<>> \/ Head(t) # "["
       THEN bad
       ELSE IF u # <<>> /\ Head(u) = "]"
            THEN (IF TrimLeft(Tail(u)) = <<>> THEN [ok |-> TRUE, arr |-> <<>>] ELSE bad)
            ELSE ReadItems(Tail(t), <<>>)

ModelinePrefix == <<"#", " ", "t", "a", "l", "m", ":", " ">>
PartSeparator == <<",", " ">>

KeyNodes == <<"n", "o", "d", "e", "s">>
KeyEndpoints == <<"e", "n", "d", "p", "o", "i", "n", "t", "s">>
KeyTemplates == <<"t", "e", "m", "p", "l", "a", "t", "e", "s">>

\* &Config{}: a slice is the sequence of its strings, the nil slice the empty one
EmptyConfig == [Nodes |-> <<>>, Endpoints |-> <<>>, Templates |-> <<>>]

ErrInvalidPart == "invalid format of modeline part"
ErrJSONArray == "error parsing JSON array"
ErrNoPrefix == "modeline prefix not found"

\* the loop of ParseModeline over parts, from part i on
RECURSIVE parseParts(_, _, _)
parseParts(parts, i, cfg) ==
    IF i > Len(parts)
    THEN [config |-> cfg, err |-> NoError]
    ELSE LET keyVal == SplitN2(TrimSpace(parts[i]), <<"=">>)
             key == keyVal[1]
             arr == jsonUnmarshal(keyVal[2])
         IN IF Len(keyVal) # 2
            THEN [config |-> Nil, err |-> ErrInvalidPart]
            ELSE IF ~arr.ok
                 THEN [config |-> Nil, err |-> ErrJSONArray]
                 ELSE parseParts(parts, i + 1,
                                 CASE key = KeyNodes -> [cfg EXCEPT !.Nodes = arr.arr]
                                   [] key = KeyEndpoints -> [cfg EXCEPT !.Endpoints = arr.arr]
                                   [] key = KeyTemplates -> [cfg EXCEPT !.Templates = arr.arr]
                                   [] OTHER -> cfg)

\* ParseModeline: the *Config and the error it returns
ParseModeline(str) ==
    LET trimLine == TrimSpace(str)
    IN IF HasPrefix(trimLine, ModelinePrefix)
       THEN parseParts(Split(TrimPrefix(trimLine, ModelinePrefix), PartSeparator), 1,
                       EmptyConfig)
       ELSE [config |-> Nil, err |-> ErrNoPrefix]

\* The keys of the lines: the three known ones and another one.
ModelineKeys == {KeyNodes, KeyEndpoints, KeyTemplates, <<"x">>}

\* The arrays of the lines: of strings with and without a comma in them.
Arrays == {<<>>, <<<<"a">>>>, <<<<"a">>, <<"b">>>>, <<<<"a", ",", " ", "b">>>>}

\* A JSON array is written compact, as json.Marshal does, or with a blank
\* after each comma.
Styles == {<<",">>, <<",", " ">>}

RECURSIVE Join(_, _)
Join(strs, sep) ==
    IF strs = <<>>
    THEN <<>>
    ELSE IF Len(strs) = 1
         THEN strs[1]
         ELSE strs[1] \o sep \o Join(Tail(strs), sep)

\* the JSON text of an array of strings
ArrayText(arr, sep) ==
    <<"[">> \o Join([i \in 1..Len(arr) |-> <<"\"">> \o arr[i] \o <<"\"">>], sep) \o <<"]">>

Parts == [key : ModelineKeys, arr : Arrays, sep : Styles]

\* the line '# talm: k1=v1, k2=v2, ...' of the parts
LineOf(parts) ==
    ModelinePrefix \o
    Join([i \in 1..Len(parts) |->
              parts[i].key \o <<"=">> \o ArrayText(parts[i].arr, parts[i].sep)],
         PartSeparator)

InitModeline ==
    /\ written \in UNION {[1..n -> Parts] : n \in 1..MaxParts}
    /\ line = LineOf(written)
    /\ config = Nil /\ parseErr = NoError
    /\ original = Nil /\ modified = Nil /\ diff = Nil
    /\ targetNode = Nil /\ sourceNode = Nil /\ dstPaths = NoPaths /\ idx = 0
    /\ output = Nil
    /\ pc = "modeline"
    /\ NoRender /\ NoInvocations /\ NoGlobals

\* the call ParseModeline(line)
ParseModelineCall ==
    /\ pc = "modeline"
    /\ config' = ParseModeline(line).config
    /\ parseErr' = ParseModeline(line).err
    /\ pc' = "parsed"
    /\ UNCHANGED <<written, line, globalVars>>
    /\ UNCHANGED <<diffVars, loopVars, renderVars, sharedVars>>

NextModeline == ParseModelineCall

SpecModeline == InitModeline /\ [][NextModeline]_vars

\* ------------------------------------------- lines that are no modeline

\* What a line starts with: the prefix, the prefix after blanks, no prefix,
\* and the prefix short of a blank.
LinePrefixes ==
    {ModelinePrefix, <<" ", " ", "#", " ", "t", "a", "l", "m", ":", " ">>, <<>>, <<"#", "t", "a", "l", "m", ":", " ">>, <<"#", " ", "t", "a", "l", "m", ":">>}

\* The texts after '=': JSON arrays of strings, and texts that are none (a
\* string, an array of a number, an array cut short, a word, nothing, null,
\* an array of null).
RawValues ==
    {[text |-> <<"[", "]">>, array |-> TRUE],
     [text |-> <<"[", "\"", "a", "\"", "]">>, array |-> TRUE],
     [text |-> <<"\"", "a", "\"">>, array |-> FALSE],
     [text |-> <<"[", "1", "]">>, array |-> FALSE],
     [text |-> <<"[", "\"", "a", "\"">>, array |-> FALSE],
     [text |-> <<"a">>, array |-> FALSE],
     [text |-> <<>>, array |-> FALSE],
     [text |-> <<"n", "u", "l", "l">>, array |-> FALSE],
     [text |-> <<"[", "n", "u", "l", "l", "]">>, array |-> FALSE]}

\* A part of a line: key=text, or the key alone.
RawParts ==
    [key : {KeyNodes, <<"x">>}, eq : {TRUE}, value : RawValues]
    \cup [key : {KeyNodes, <<"x">>}, eq : {FALSE}, value : {[text |-> <<>>, array |-> FALSE]}]

RawPartText(part) ==
    IF part.eq THEN part.key \o <<"=">> \o part.value.text ELSE part.key

\* the line of a prefix and parts
RawLineOf(w) ==
    w.prefix \o Join([i \in 1..Len(w.parts) |-> RawPartText(w.parts[i])], PartSeparator)

InitModelineErrors ==
    /\ written \in [prefix : LinePrefixes,
                    parts : UNION {[1..n -> RawParts] : n \in 1..MaxParts}]
    /\ line = RawLineOf(written)
    /\ config = Nil /\ parseErr = NoError
    /\ original = Nil /\ modified = Nil /\ diff = Nil
    /\ targetNode = Nil /\ sourceNode = Nil /\ dstPaths = NoPaths /\ idx = 0
    /\ output = Nil
    /\ pc = "modeline"
    /\ NoRender /\ NoInvocations /\ NoGlobals

SpecModelineErrors == InitModelineErrors /\ [][NextModeline]_vars

\* ------------------------------------------------------- GenerateModeline

\* The []string values handed to GenerateModeline: the nil slice, and the
\* slices of Arrays (the empty one among them).
Slices ==
    {[isNil |-> TRUE, items |-> <<>>]} \cup {[isNil |-> FALSE, items |-> a] : a \in Arrays}

\* json.Marshal of a []string (no character of the strings needs an escape)
jsonMarshal(slice) ==
    IF slice.isNil THEN JSONNull ELSE ArrayText(slice.items, <<",">>)

\* GenerateModeline: the line of the format '# talm: nodes=%s, endpoints=%s, templates=%s'
GenerateModeline(nodes, endpoints, templates) ==
    <<"#", " ", "t", "a", "l", "m", ":", " ", "n", "o", "d", "e", "s", "=">> \o jsonMarshal(nodes)
    \o <<",", " ", "e", "n", "d", "p", "o", "i", "n", "t", "s", "=">> \o jsonMarshal(endpoints)
    \o <<",", " ", "t", "e", "m", "p", "l", "a", "t", "e", "s", "=">> \o jsonMarshal(templates)

InitRoundTrip ==
    /\ written \in [nodes : Slices, endpoints : Slices, templates : Slices]
    /\ line = <<>>
    /\ config = Nil /\ parseErr = NoError
    /\ original = Nil /\ modified = Nil /\ diff = Nil
    /\ targetNode = Nil /\ sourceNode = Nil /\ dstPaths = NoPaths /\ idx = 0
    /\ output = Nil
    /\ pc = "generate"
    /\ NoRender /\ NoInvocations /\ NoGlobals

\* the call GenerateModeline(nodes, endpoints, templates); json.Marshal of a
\* slice of strings does not fail
GenerateModelineCall ==
    /\ pc = "generate"
    /\ line' = GenerateModeline(written.nodes, written.endpoints, written.templates)
    /\ pc' = "modeline"
    /\ UNCHANGED <<written, config, parseErr, globalVars>>
    /\ UNCHANGED <<diffVars, loopVars, renderVars, sharedVars>>

NextRoundTrip == GenerateModelineCall \/ ParseModelineCall

SpecRoundTrip == InitRoundTrip /\ [][NextRoundTrip]_vars

\* ------------------------------------- processModelineAndUpdateGlobals

ErrEmptyFile == "config file is empty"
ErrNodesNotSet == "nodes are not set for the command"

\* ReadAndParseModeline of a file that could be opened: its first line is parsed
ReadAndParseModeline(file) ==
    IF Len(file) > 0
    THEN ParseModeline(file[1])
    ELSE [config |-> Nil, err |-> ErrEmptyFile]

\* what processModelineAndUpdateGlobals leaves in GlobalArgs and returns
processModelineAndUpdateGlobals(globals, file, nodesFromArgs, endpointsFromArgs, owerwrite) ==
    LET r == ReadAndParseModeline(file)
        modelineConfig == r.config
        withNodes ==
            IF ~nodesFromArgs /\ Len(modelineConfig.Nodes) > 0
            THEN [globals EXCEPT !.Nodes = IF owerwrite
                                           THEN modelineConfig.Nodes
                                           ELSE globals.Nodes \o modelineConfig.Nodes]
            ELSE globals
        withEndpoints ==
            IF ~endpointsFromArgs /\ Len(modelineConfig.Endpoints) > 0
            THEN [withNodes EXCEPT !.Endpoints = IF owerwrite
                                                 THEN modelineConfig.Endpoints
                                                 ELSE withNodes.Endpoints \o modelineConfig.Endpoints]
            ELSE withNodes
    IN IF r.err # NoError
       THEN [globals |-> globals, config |-> r.config, parseErr |-> r.err, err |-> r.err]
       ELSE [globals |-> withEndpoints, config |-> r.config, parseErr |-> NoError,
             err |-> IF Len(withEndpoints.Nodes) < 1 THEN ErrNodesNotSet ELSE NoError]

\* The node and endpoint lists of the command line and of the modelines.
ArgLists == {<<>>, <<<<"c">>>>}
FileLists == {<<>>, <<<<"a">>>>, <<<<"b">>>>}

\* The files: one with a modeline of nodes and endpoints as GenerateModeline
\* writes them, one whose first line is no modeline, and an empty one.
ConfigFiles ==
    {<<LineOf(<<[key |-> KeyNodes, arr |-> n, sep |-> <<",">>],
                [key |-> KeyEndpoints, arr |-> e, sep |-> <<",">>]>>)>> :
        n \in FileLists, e \in FileLists}
    \cup {<<<<"a", ":", " ", "1">>>>, <<>>}

InitGlobals ==
    /\ args \in [Nodes : ArgLists, Endpoints : ArgLists]
    /\ GlobalArgs = args
    /\ configFiles \in UNION {[1..n -> ConfigFiles] : n \in 1..MaxFiles}
    /\ flags = NoFlags /\ filesDone = 0 /\ cmdErr = NoError
    /\ written = <<>> /\ line = <<>> /\ config = Nil /\ parseErr = NoError
    /\ original = Nil /\ modified = Nil /\ diff = Nil
    /\ targetNode = Nil /\ sourceNode = Nil /\ dstPaths = NoPaths /\ idx = 0
    /\ output = Nil
    /\ pc = "command"
    /\ NoRender /\ NoInvocations

\* the command before its loop: nodesFromArgs and endpointsFromArgs are taken
\* from GlobalArgs; owerwrite is the constant the command passes
EnterCommand ==
    /\ pc = "command"
    /\ \E owerwrite \in BOOLEAN :
          flags' = [nodesFromArgs |-> Len(GlobalArgs.Nodes) > 0,
                    endpointsFromArgs |-> Len(GlobalArgs.Endpoints) > 0,
                    owerwrite |-> owerwrite]
    /\ pc' = "files"
    /\ UNCHANGED <<written, line, config, parseErr>>
    /\ UNCHANGED <<args, GlobalArgs, configFiles, filesDone, cmdErr>>
    /\ UNCHANGED <<diffVars, loopVars, renderVars, sharedVars>>

\* ProcessFile changing the node list whatever nodesFromArgs says
ProcessFileIgnoresArgs ==
    /\ pc = "files" /\ filesDone < Len(configFiles)
    /\ LET file == configFiles[filesDone + 1]
           r == processModelineAndUpdateGlobals(GlobalArgs, file, FALSE,
                                                flags.endpointsFromArgs, flags.owerwrite)
       IN /\ GlobalArgs' = r.globals
          /\ config' = r.config /\ parseErr' = r.parseErr /\ cmdErr' = r.err
          /\ line' = (IF Len(file) > 0 THEN file[1] ELSE <<>>)
          /\ IF r.err # NoError
             THEN pc' = "failed" /\ UNCHANGED filesDone
             ELSE filesDone' = filesDone + 1 /\ UNCHANGED pc
    /\ UNCHANGED <<written, args, configFiles, flags>>
    /\ UNCHANGED <<diffVars, loopVars, renderVars, sharedVars>>

\* one iteration of the command's loop: processModelineAndUpdateGlobals on the
\* next file; its error ends the command
ProcessFile ==
    /\ pc = "files" /\ filesDone < Len(configFiles)
    /\ LET file == configFiles[filesDone + 1]
           r == processModelineAndUpdateGlobals(GlobalArgs, file, flags.nodesFromArgs,
                                                flags.endpointsFromArgs, flags.owerwrite)
       IN /\ GlobalArgs' = r.globals
          /\ config' = r.config /\ parseErr' = r.parseErr /\ cmdErr' = r.err
          /\ line' = (IF Len(file) > 0 THEN file[1] ELSE <<>>)
          /\ IF r.err # NoError
             THEN pc' = "failed" /\ UNCHANGED filesDone
             ELSE filesDone' = filesDone + 1 /\ UNCHANGED pc
    /\ UNCHANGED <<written, args, configFiles, flags>>
    /\ UNCHANGED <<diffVars, loopVars, renderVars, sharedVars>>

\* the loop is over
LeaveCommand ==
    /\ pc = "files" /\ filesDone = Len(configFiles)
    /\ pc' = "done"
    /\ UNCHANGED <<modelineVars, diffVars, loopVars, renderVars, sharedVars>>

NextGlobals == EnterCommand \/ ProcessFile \/ LeaveCommand

SpecGlobals == InitGlobals /\ [][NextGlobals]_vars

\* ------------------------------------------- reading a diff and its inputs

\* the two roots compareNodes is called on
origRoot == clearComments(original).Content[1]
modRoot == clearComments(modified).Content[1]

IsMapping(n) == n.Kind = MappingNode
IsSequence(n) == n.Kind = SequenceNode
IsScalar(n) == n.Kind = ScalarNode

\* the keys of a mapping, in document order, and the value under a key
KeySeq(n) == [i \in 1..(Len(n.Content) \div 2) |-> n.Content[2 * i - 1].Value]
KeySet(n) == {KeySeq(n)[i] : i \in 1..Len(KeySeq(n))}
ValueOf(n, k) ==
    n.Content[2 * (CHOOSE i \in 1..Len(KeySeq(n)) : KeySeq(n)[i] = k)]

\* the Deletion Marker {$patch: delete}, written out
DeletionMarker ==
    [Kind |-> MappingNode, Value |-> <<>>,
     Content |-> <<[Kind |-> ScalarNode, Value |-> <<"$", "p", "a", "t", "c", "h">>,
                    Content |-> <<>>, HeadComment |-> <<>>, LineComment |-> <<>>,
                    FootComment |-> <<>>],
                   [Kind |-> ScalarNode, Value |-> <<"d", "e", "l", "e", "t", "e">>,
                    Content |-> <<>>, HeadComment |-> <<>>, LineComment |-> <<>>,
                    FootComment |-> <<>>]>>,
     HeadComment |-> <<>>, LineComment |-> <<>>, FootComment |-> <<>>]

\* the keys of a diff (none when the diff is empty)
DiffKeys == IF diff = Nil THEN <<>> ELSE KeySeq(diff)

\* the keys original has and modified lacks, in original's order
RemovedKeys == SelectSeq(KeySeq(origRoot), LAMBDA k : k \notin KeySet(modRoot))

\* C1: Diff(T, T) is the empty result for every tree T
DiffOfSelfIsEmpty ==
    (pc = "diffed" /\ original = modified) => diff = Nil

\* C1 witness: a mapping that nests a mapping or a sequence was diffed with itself
DiffOfSelfWitness ==
    /\ pc = "diffed" /\ original = modified /\ diff = Nil
    /\ IsMapping(origRoot)
    /\ \E k \in KeySet(origRoot) :
          /\ ~IsScalar(ValueOf(origRoot, k))
          /\ Len(ValueOf(origRoot, k).Content) > 0

\* ---- applying a patch, as the claims describe it

\* a tree up to the order of the keys of its mappings
RECURSIVE Canon(_)
Canon(n) ==
    CASE n.Kind = MappingNode ->
            [kind |-> "mapping", of |-> [k \in KeySet(n) |-> Canon(ValueOf(n, k))]]
      [] n.Kind = SequenceNode ->
            [kind |-> "sequence",
             of |-> [i \in 1..Len(n.Content) |-> Canon(n.Content[i])]]
      [] OTHER -> [kind |-> n.Kind, of |-> n.Value]

StructEq(x, y) == Canon(x) = Canon(y)

\* Recursive merge of patch p onto a: a Deletion Marker removes its key, every
\* other patch key overwrites or adds; an empty patch changes nothing.
RECURSIVE Merge(_, _)
RECURSIVE MergeKept(_, _, _)
RECURSIVE MergeAdded(_, _, _)

\* the pairs of a, from index i on, after the patch
MergeKept(a, p, i) ==
    IF i > Len(a.Content)
    THEN <<>>
    ELSE LET k == a.Content[i].Value
         IN (IF k \notin KeySet(p)
             THEN <<a.Content[i], a.Content[i + 1]>>
             ELSE IF ValueOf(p, k) = DeletionMarker
                  THEN <<>>
                  ELSE <<a.Content[i], Merge(a.Content[i + 1], ValueOf(p, k))>>)
            \o MergeKept(a, p, i + 2)

\* the pairs of p, from index i on, whose key a lacks
MergeAdded(a, p, i) ==
    IF i > Len(p.Content)
    THEN <<>>
    ELSE (IF p.Content[i].Value \in KeySet(a) \/ p.Content[i + 1] = DeletionMarker
          THEN <<>>
          ELSE <<p.Content[i], p.Content[i + 1]>>)
         \o MergeAdded(a, p, i + 2)

Merge(a, p) ==
    IF p = Nil
    THEN a
    ELSE IF IsMapping(a) /\ IsMapping(p)
         THEN [a EXCEPT !.Content = MergeKept(a, p, 1) \o MergeAdded(a, p, 1)]
         ELSE p

\* The pairs (a, b) the round trip is amended to: no key that b drops from a
\* mapping of a holds a mapping, and two sequences that meet are equal, or the
\* second is not empty and has no stringified item value in common with the first.
RECURSIVE RoundTrips(_, _)
RoundTrips(a, b) ==
    IF a.Kind # b.Kind
    THEN TRUE
    ELSE CASE IsMapping(a) ->
                \A k \in KeySet(a) :
                    IF k \in KeySet(b)
                    THEN RoundTrips(ValueOf(a, k), ValueOf(b, k))
                    ELSE ~IsMapping(ValueOf(a, k))
           [] IsSequence(a) ->
                \/ StructEq(a, b)
                \/ /\ Len(b.Content) > 0
                   /\ {a.Content[i].Value : i \in 1..Len(a.Content)}
                        \cap {b.Content[i].Value : i \in 1..Len(b.Content)} = {}
           [] OTHER -> TRUE

\* C2, as claimed: the patch applied onto A gives B, for all A and B
PatchRoundTrip ==
    pc = "diffed" => StructEq(Merge(origRoot, diff), modRoot)

\* C2, amended: the patch applied onto A gives B up to the order of mapping
\* keys, when no key dropped by B holds a mapping in A and every sequence of B
\* that meets a sequence of A equals it, or is not empty and shares no item
\* value with it
PatchRoundTripAmended ==
    (pc = "diffed" /\ RoundTrips(origRoot, modRoot))
        => StructEq(Merge(origRoot, diff), modRoot)

\* C2 witness: a patch that deletes a key and carries another entry was applied
PatchRoundTripWitness ==
    /\ pc = "diffed" /\ RoundTrips(origRoot, modRoot)
    /\ IsMapping(origRoot) /\ IsMapping(modRoot) /\ diff # Nil
    /\ \E i, j \in 1..Len(DiffKeys) :
          /\ ValueOf(diff, DiffKeys[i]) = DeletionMarker
          /\ ValueOf(diff, DiffKeys[j]) # DeletionMarker
    /\ StructEq(Merge(origRoot, diff), modRoot)

\* C3: the keys original has and modified lacks close the result, after every
\* key taken from modified and in original's order; under each, a removed
\* mapping gives one flat Deletion Marker per key of its own, anything else
\* the flat Deletion Marker
RemovedKeysAreDeletedGranularly ==
    (pc = "diffed" /\ IsMapping(origRoot) /\ IsMapping(modRoot)) =>
        LET n == Len(DiffKeys) - Len(RemovedKeys)
        IN /\ n >= 0
           /\ SubSeq(DiffKeys, n + 1, Len(DiffKeys)) = RemovedKeys
           /\ \A i \in 1..n : DiffKeys[i] \in KeySet(modRoot)
           /\ \A i \in 1..Len(RemovedKeys) :
                LET was == ValueOf(origRoot, RemovedKeys[i])
                    now == diff.Content[2 * (n + i)]
                IN IF IsMapping(was)
                   THEN /\ IsMapping(now)
                        /\ KeySeq(now) = KeySeq(was)
                        /\ \A j \in 1..Len(KeySeq(now)) :
                              now.Content[2 * j] = DeletionMarker
                   ELSE now = DeletionMarker

\* C3 witness: a removed mapping was deleted key by key, after a key of modified
RemovedKeysWitness ==
    /\ pc = "diffed" /\ IsMapping(origRoot) /\ IsMapping(modRoot)
    /\ Len(RemovedKeys) > 0 /\ Len(DiffKeys) > Len(RemovedKeys)
    /\ \E i \in 1..Len(RemovedKeys) :
          /\ IsMapping(ValueOf(origRoot, RemovedKeys[i]))
          /\ Len(ValueOf(origRoot, RemovedKeys[i]).Content) > 0
          /\ ValueOf(diff, RemovedKeys[i]) # DeletionMarker

\* ---- key paths

\* The paths of a tree: the chains of mapping keys and sequence indices that
\* lead from its root to one of its nodes.
RECURSIVE PathsOf(_)
PathsOf(n) ==
    {<<>>} \cup
    CASE n.Kind = MappingNode ->
            UNION {{<<[key |-> k]>> \o p : p \in PathsOf(ValueOf(n, k))} : k \in KeySet(n)}
      [] n.Kind = SequenceNode ->
            UNION {{<<[index |-> i]>> \o p : p \in PathsOf(n.Content[i])} :
                        i \in 1..Len(n.Content)}
      [] OTHER -> {}

RECURSIVE NodeAtPath(_, _)
NodeAtPath(n, p) ==
    IF p = <<>>
    THEN n
    ELSE NodeAtPath(IF IsMapping(n)
                    THEN ValueOf(n, Head(p).key)
                    ELSE n.Content[Head(p).index],
                    Tail(p))

\* the paths of the patch that hold a Deletion Marker
MarkerPaths ==
    IF diff = Nil THEN {} ELSE {p \in PathsOf(diff) : NodeAtPath(diff, p) = DeletionMarker}

\* C4: a Deletion Marker sits only at a path that baseline has and target
\* lacks; a target that keeps every path of baseline gives a patch without one
\* (the inputs hold no literal $patch key)
MarkersOnlyForRemovedPaths ==
    pc = "diffed" =>
        /\ \A p \in MarkerPaths : p \in PathsOf(origRoot) /\ p \notin PathsOf(modRoot)
        /\ (PathsOf(origRoot) \subseteq PathsOf(modRoot) => MarkerPaths = {})

\* C4 witness: a patch of additions and changes only, equal to the target
MarkersWitness ==
    /\ pc = "diffed" /\ IsMapping(origRoot) /\ IsMapping(modRoot)
    /\ PathsOf(origRoot) \subseteq PathsOf(modRoot)
    /\ \E k \in KeySet(origRoot) : ValueOf(origRoot, k) # ValueOf(modRoot, k)
    /\ \E k \in KeySet(modRoot) : k \notin KeySet(origRoot)
    /\ MarkerPaths = {}
    /\ diff = modRoot

\* C5: of two sequences the diff holds the items of modified whose value no
\* item of original has, in modified's order, and is empty when there is none
SequenceDiffIsAdditionsOnly ==
    (pc = "diffed" /\ IsSequence(origRoot) /\ IsSequence(modRoot)) =>
        LET had == {origRoot.Content[i].Value : i \in 1..Len(origRoot.Content)}
            new == {i \in 1..Len(modRoot.Content) : modRoot.Content[i].Value \notin had}
        IN IF new = {}
           THEN diff = Nil
           ELSE /\ diff # Nil /\ IsSequence(diff)
                /\ Len(diff.Content) = Cardinality(new)
                /\ \A i \in new :
                      diff.Content[Cardinality({j \in new : j <= i})] = modRoot.Content[i]

\* C5 witness: modified kept an item of original and added one
SequenceDiffWitness ==
    /\ pc = "diffed" /\ IsSequence(origRoot) /\ IsSequence(modRoot)
    /\ Len(origRoot.Content) > 0
    /\ Len(modRoot.Content) > Len(origRoot.Content)
    /\ modRoot.Content[1] = origRoot.Content[1]
    /\ diff # Nil
    /\ Len(diff.Content) < Len(modRoot.Content)

\* the keys of modified that the first pass reports: the added ones and the
\* common ones whose values differ
ReportedKeys ==
    SelectSeq(KeySeq(modRoot),
              LAMBDA k : k \in KeySet(origRoot) =>
                            compareNodes(ValueOf(origRoot, k), ValueOf(modRoot, k)) # Nil)

\* C6: of two mappings the diff starts with the keys of modified, in
\* modified's order: a common key exactly when the diff of its two values is
\* not empty, with that diff, and an added key with modified's value; the
\* diff is empty when nothing was accumulated
ModifiedKeysInModifiedOrder ==
    (pc = "diffed" /\ IsMapping(origRoot) /\ IsMapping(modRoot)) =>
        /\ SubSeq(DiffKeys, 1, Len(DiffKeys) - Len(RemovedKeys)) = ReportedKeys
        /\ \A i \in 1..Len(ReportedKeys) :
              diff.Content[2 * i] =
                  IF ReportedKeys[i] \in KeySet(origRoot)
                  THEN compareNodes(ValueOf(origRoot, ReportedKeys[i]),
                                    ValueOf(modRoot, ReportedKeys[i]))
                  ELSE ValueOf(modRoot, ReportedKeys[i])
        /\ (diff = Nil <=> (Len(ReportedKeys) = 0 /\ Len(RemovedKeys) = 0))

\* C6 witness: modified leads with an added key and then changes a key of
\* original, and the diff lists the two in that order
ModifiedKeysWitness ==
    /\ pc = "diffed" /\ IsMapping(origRoot) /\ IsMapping(modRoot)
    /\ Len(ReportedKeys) = 2
    /\ ReportedKeys[1] \notin KeySet(origRoot)
    /\ ReportedKeys[2] \in KeySet(origRoot)
    /\ DiffKeys = ReportedKeys

\* C7: nodes of different kinds give modified in full; two scalars give the
\* empty diff exactly when their values are equal, else modified
KindChangeReplaces ==
    pc = "diffed" =>
        /\ origRoot.Kind # modRoot.Kind => diff = modRoot
        /\ (IsScalar(origRoot) /\ IsScalar(modRoot)) =>
              /\ diff = Nil <=> origRoot.Value = modRoot.Value
              /\ diff # Nil => diff = modRoot

\* C7 witness: a mapping with content was replaced by a sequence with content
KindChangeWitness ==
    /\ pc = "diffed" /\ IsMapping(origRoot) /\ IsSequence(modRoot)
    /\ Len(origRoot.Content) > 0 /\ Len(modRoot.Content) > 0
    /\ diff = modRoot

IsMappingOfScalars(n) ==
    /\ IsMapping(n) /\ Len(n.Content) > 0
    /\ \A k \in KeySet(n) : IsScalar(ValueOf(n, k))

EmptyMapping ==
    [Kind |-> MappingNode, Value |-> <<>>, Content |-> <<>>,
     HeadComment |-> <<>>, LineComment |-> <<>>, FootComment |-> <<>>]

\* C8: against the empty mapping a mapping of scalars is a pure addition, and
\* from it to the empty mapping every key gets the Deletion Marker
EmptyMappingIsAbsent ==
    pc = "diffed" =>
        /\ (origRoot = EmptyMapping /\ IsMappingOfScalars(modRoot)) => diff = modRoot
        /\ (modRoot = EmptyMapping /\ IsMappingOfScalars(origRoot)) =>
              /\ diff # Nil /\ IsMapping(diff)
              /\ KeySeq(diff) = KeySeq(origRoot)
              /\ \A k \in KeySet(origRoot) : ValueOf(diff, k) = DeletionMarker

\* C8 witness: a mapping of two scalars was diffed down to the empty mapping
EmptyMappingWitness ==
    /\ pc = "diffed" /\ modRoot = EmptyMapping /\ IsMappingOfScalars(origRoot)
    /\ Len(KeySeq(origRoot)) >= 2
    /\ diff # Nil /\ Len(KeySeq(diff)) >= 2

\* ---- reading the comment loop

\* the path ApplyComments reaches the node at pos with, from the root's path
RECURSIVE PathAt(_, _, _)
PathAt(n, pos, path) ==
    IF pos = <<>>
    THEN path
    ELSE PathAt(n.Content[Head(pos)], Tail(pos), childPath(n, path, Head(pos)))

BlankLine == <<"\n", "\n">>

\* the merge of one channel as C9 words it
MergedAsClaimed(old, new) ==
    IF old = <<>> THEN new ELSE IF new = <<>> THEN old ELSE old \o BlankLine \o new

\* the same, with the surrounding whitespace of both comments dropped when
\* the two are joined
MergedTrimmed(old, new) ==
    IF old = <<>>
    THEN new
    ELSE IF new = <<>>
         THEN old
         ELSE TrimRight(TrimLeft(old)) \o BlankLine \o TrimRight(TrimLeft(new))

\* an Apply step took place
Applied == pc = "copied" /\ pc' = "loop"

\* C9, as claimed: at every target node whose path is in the comment map,
\* Apply leaves on each channel the target's comment, then a blank line, then
\* the source's (or the one of the two that is not empty)
ApplyMergesEachChannel ==
    [][Applied =>
        \A pos \in Positions(targetNode) :
            LET p == PathAt(targetNode, pos, <<>>)
                was == NodeAt(targetNode, pos)
                now == NodeAt(targetNode', pos)
            IN p \in DOMAIN dstPaths =>
                  \A ch \in Channels : now[ch] = MergedAsClaimed(was[ch], dstPaths[p][ch])
      ]_vars

\* C9, amended: the same, the two comments being trimmed of surrounding
\* whitespace when both are non-empty and joined
ApplyMergesEachChannelTrimmed ==
    [][Applied =>
        \A pos \in Positions(targetNode) :
            LET p == PathAt(targetNode, pos, <<>>)
                was == NodeAt(targetNode, pos)
                now == NodeAt(targetNode', pos)
            IN p \in DOMAIN dstPaths =>
                  \A ch \in Channels : now[ch] = MergedTrimmed(was[ch], dstPaths[p][ch])
      ]_vars

\* C9 witness: the key of the target took a fragment's head comment on its
\* empty channel and a second fragment's was joined to it, the fragment's
\* value under the key being another than the target's
ApplyMergesWitness ==
    /\ pc = "loop" /\ idx = 2
    /\ PathAt(targetNode, <<1, 1>>, <<>>) \in DOMAIN dstPaths
    /\ NodeAt(sourceNode, <<1, 2>>).Value # NodeAt(targetNode, <<1, 2>>).Value
    /\ NodeAt(targetNode, <<1, 1>>).HeadComment = <<"#", "s", "\n", "\n", "#", "f">>
    /\ NodeAt(targetNode, <<1, 1>>).LineComment = <<>>
    /\ NodeAt(targetNode, <<1, 1>>).FootComment = <<>>

IsPrefix(a, b) == Len(a) <= Len(b) /\ SubSeq(b, 1, Len(a)) = a

\* C10: a channel that is not empty before a fragment is applied is not empty
\* after it: it is unchanged, or it is its old text without surrounding
\* whitespace, a blank line, and the fragment's comment
CommentsOnlyGrow ==
    [][Applied =>
        \A pos \in Positions(targetNode) : \A ch \in Channels :
            LET was == NodeAt(targetNode, pos)[ch]
                now == NodeAt(targetNode', pos)[ch]
            IN was # <<>> =>
                  /\ now # <<>>
                  /\ \/ now = was
                     \/ /\ IsPrefix(TrimRight(TrimLeft(was)) \o BlankLine, now)
                        /\ Len(now) > Len(TrimRight(TrimLeft(was)) \o BlankLine)
      ]_vars

\* C10 witness: two fragments commented the same key, first then second
CommentsOnlyGrowWitness ==
    /\ pc = "loop" /\ idx = 2
    /\ LET key == NodeAt(targetNode, <<1, 1>>)
       IN /\ key.HeadComment = <<"#", "f", "\n", "\n", "#", "s">>
          /\ sourceNode.Content[1].Content[1].HeadComment = <<"#", "s", " ">>

\* ---- structural paths

\* The structural path of the node at pos: the chain of mapping keys and
\* sequence indices that leads to it from the root.  The key node and the
\* value node of a pair are both reached under the pair's key and are told
\* apart by their side; the document node adds nothing to the chain.
RECURSIVE StructPath(_, _)
StructPath(n, pos) ==
    IF pos = <<>>
    THEN <<>>
    ELSE LET i == Head(pos)
             seg == CASE n.Kind = MappingNode ->
                            <<[key |-> n.Content[IF i % 2 = 1 THEN i ELSE i - 1].Value,
                               side |-> IF i % 2 = 1 THEN "key" ELSE "value"]>>
                      [] n.Kind = SequenceNode -> <<[index |-> i - 1]>>
                      [] OTHER -> <<>>
         IN seg \o StructPath(n.Content[i], Tail(pos))

\* C11: a channel of a target node that a fragment's Apply changed took the
\* comment of the fragment's node at the same structural path; a node the
\* fragment has under another key gives it nothing
CommentsFollowStructuralPath ==
    [][Applied =>
        \A pos \in Positions(targetNode) : \A ch \in Channels :
            LET was == NodeAt(targetNode, pos)[ch]
                now == NodeAt(targetNode', pos)[ch]
            IN now # was =>
                  \E spos \in Positions(sourceNode) :
                      /\ StructPath(sourceNode, spos) = StructPath(targetNode, pos)
                      /\ NodeAt(sourceNode, spos)[ch] # <<>>
                      /\ now = MergedTrimmed(was, NodeAt(sourceNode, spos)[ch])
      ]_vars

\* C11, the divergence reached: the scalar under the target's key carries the
\* line comment of a fragment whose only key is another one
MisattachedWitness ==
    /\ pc = "loop" /\ idx = 1
    /\ NodeAt(sourceNode, <<1, 1>>).Value # NodeAt(targetNode, <<1, 1>>).Value
    /\ NodeAt(sourceNode, <<1, 2>>).LineComment # <<>>
    /\ NodeAt(targetNode, <<1, 2>>).LineComment = NodeAt(sourceNode, <<1, 2>>).LineComment

\* ---- reading a render pass

\* the target of the pass as the loop receives it: the full configuration, or
\* the diff DiffYAMLs encoded, parsed again
ParsedTarget ==
    IF opts.Full
    THEN Unmarshal(configFull).node
    ELSE Unmarshal(DiffYAMLsReturn(configOrigin, configFull, NoError).bytes).node

\* Capture and Apply of the fragments i, i + 1, ... of patches, one after the
\* other, on target; a fragment that does not parse has no node to give
RECURSIVE ApplyFragments(_, _, _)
ApplyFragments(target, patches, i) ==
    IF i > Len(patches)
    THEN target
    ELSE ApplyFragments(
             ApplyComments(target, <<>>,
                           CopyComments(Unmarshal(patches[i]).node, <<>>, NoPaths)),
             patches, i + 1)

Returned == pc = "returned"

PrimaryParseFailure == (~opts.Full /\ ~configOrigin.ok) \/ ~configFull.ok

\* C13: when the baseline or the target does not parse the pass returns an
\* error and writes nothing, and a pass that wrote nothing (a failed
\* serialization included) returned an error
FatalErrorsAreReturned ==
    Returned =>
        /\ PrimaryParseFailure => (err # NoError /\ output = Nil)
        /\ output = Nil => err # NoError

\* C13, the divergence reached: render ended on a baseline that does not
\* parse, with no document and without an error
SwallowedErrorWitness ==
    /\ Returned /\ fn = "render" /\ ~opts.Full /\ ~configOrigin.ok
    /\ output = Nil /\ err = NoError

\* a fragment of the pass does not parse
BadFragment == \E i \in 1..Len(configPatches) : ~configPatches[i].ok

\* the fragments that parse, in their order
GoodFragments == SelectSeq(configPatches, LAMBDA t : t.ok)

CommentedPaths(n) ==
    {PathAt(n, pos, <<>>) : pos \in {q \in Positions(n) : HasComment(NodeAt(n, q))}}

\* C20: the k-th Capture takes the k-th fragment and fills a map that holds
\* the commented nodes of that fragment and nothing else; the Apply that
\* follows merges that map into the one target and ends the iteration; the
\* document is written when every fragment had its turn
FragmentsInOrderWithFreshMaps ==
    /\ [][(pc = "loop" /\ pc' = "copied") =>
              /\ sourceNode' = Unmarshal(configPatches[idx + 1]).node
              /\ DOMAIN dstPaths' = CommentedPaths(sourceNode')
              /\ \A p \in DOMAIN dstPaths' :
                    \E pos \in Positions(sourceNode') :
                        /\ PathAt(sourceNode', pos, <<>>) = p
                        /\ dstPaths'[p] = NodeAt(sourceNode', pos)
              /\ targetNode' = targetNode /\ idx' = idx]_vars
    /\ [][Applied =>
              /\ targetNode' = ApplyComments(targetNode, <<>>, dstPaths)
              /\ idx' = idx + 1]_vars
    /\ [][(pc' = "returned" /\ output' # Nil) => idx = Len(configPatches)]_vars

\* C20 witness: the second fragment is captured; the first had a comment at a
\* path that is not in the map now
FreshMapWitness ==
    /\ pc = "copied" /\ idx = 1
    /\ dstPaths # NoPaths
    /\ \E p \in CommentedPaths(Unmarshal(configPatches[1]).node) : p \notin DOMAIN dstPaths

\* a node with a text on one of its three channels
Commented(n) == \E ch \in Channels : n[ch] # <<>>

RenderedAlone(c) ==
    IF c.Offline
    THEN [Disks |-> NoDisks, LookupFunc |-> NoClient]
    ELSE [Disks |-> [d \in c.devices |-> c.client], LookupFunc |-> c.client]

\* C17: every call of Render, whatever the other calls of the process do and
\* whenever they do it, goes on to render, and renders with what it would
\* have had alone
InvocationsAreIndependent ==
    \A i \in DOMAIN calls :
        /\ calls[i].pc # "crashed"
        /\ calls[i].pc = "rendered" => calls[i].rendered = RenderedAlone(calls[i])

\* C17, the divergence reached: the second call, made after the first had
\* returned from its templates, rendered with a disk only the first node has
SharedDisksWitness ==
    /\ Len(calls) = 2
    /\ calls[1].pc = "rendered" /\ calls[2].pc = "rendered"
    /\ calls[1].rendered = RenderedAlone(calls[1])
    /\ ~calls[2].Offline
    /\ \E d \in DOMAIN calls[2].rendered.Disks :
          d \notin calls[2].devices /\ calls[2].rendered.Disks[d] = 1

\* ---- reading a parsed modeline

\* the Config of the parts of a line: each known key has the array of its
\* last part, a key that is not known changes nothing
RECURSIVE ConfigOf(_, _)
ConfigOf(parts, cfg) ==
    IF parts = <<>>
    THEN cfg
    ELSE ConfigOf(Tail(parts),
                  CASE Head(parts).key = KeyNodes -> [cfg EXCEPT !.Nodes = Head(parts).arr]
                    [] Head(parts).key = KeyEndpoints -> [cfg EXCEPT !.Endpoints = Head(parts).arr]
                    [] Head(parts).key = KeyTemplates -> [cfg EXCEPT !.Templates = Head(parts).arr]
                    [] OTHER -> cfg)

\* C18: ParseModeline of a line of key=value parts whose values are JSON
\* arrays of strings returns no error and the Config of the parts
ParseModelineReadsTheArrays ==
    pc = "parsed" =>
        /\ parseErr = NoError
        /\ config = ConfigOf(written, EmptyConfig)

\* C18, the divergence reached: the line nodes=["a", "b"], a JSON array
\* written with a blank after its comma, is refused
SpacedArrayWitness ==
    /\ pc = "parsed"
    /\ written = <<[key |-> KeyNodes, arr |-> <<<<"a">>, <<"b">>>>, sep |-> <<",", " ">>]>>
    /\ parseErr # NoError /\ config = Nil

\* ---- two fragments on one path

\* an Apply step at which the node at pos already has a comment on channel ch
\* (the target starts without comments: an earlier fragment left it) and the
\* fragment of this step has one for the same path and channel
Collides(pos, ch) ==
    LET p == PathAt(targetNode, pos, <<>>)
    IN /\ NodeAt(targetNode, pos)[ch] # <<>>
       /\ p \in DOMAIN dstPaths
       /\ dstPaths[p][ch] # <<>>

\* C21, as claimed: where two fragments have a comment for the same path, the
\* target node is left with the comment of the last fragment
LastFragmentWins ==
    [][Applied =>
        \A pos \in Positions(targetNode) : \A ch \in Channels :
            Collides(pos, ch) =>
                NodeAt(targetNode', pos)[ch] = dstPaths[PathAt(targetNode, pos, <<>>)][ch]
      ]_vars

\* C21, amended: the target node keeps the earlier comment and the last
\* fragment's is joined after it, both without surrounding whitespace and a
\* blank line between them
BothFragmentsAreKept ==
    [][Applied =>
        \A pos \in Positions(targetNode) : \A ch \in Channels :
            Collides(pos, ch) =>
                LET was == NodeAt(targetNode, pos)[ch]
                    new == dstPaths[PathAt(targetNode, pos, <<>>)][ch]
                    now == NodeAt(targetNode', pos)[ch]
                IN /\ now = TrimRight(TrimLeft(was)) \o BlankLine \o TrimRight(TrimLeft(new))
                   /\ now # new
      ]_vars

\* C21 witness: the first fragment put '#f' on the line channel of the value,
\* the second had '#s ' for the same path, and the target holds both
BothFragmentsWitness ==
    /\ pc = "loop" /\ idx = 2
    /\ NodeAt(sourceNode, <<1, 2>>).LineComment = <<"#", "s", " ">>
    /\ NodeAt(targetNode, <<1, 2>>).LineComment = <<"#", "f", "\n", "\n", "#", "s">>

\* ---- sequences of mappings and sequences

\* the items of modified that are structurally equal to no item of original
NewItems ==
    {i \in 1..Len(modRoot.Content) :
        \A j \in 1..Len(origRoot.Content) :
            ~StructEq(modRoot.Content[i], origRoot.Content[j])}

\* C22: of two sequences the diff holds every item of modified that is
\* structurally equal to no item of original, whatever the kind of the items
SequenceDiffEmitsEveryNewItem ==
    (pc = "diffed" /\ IsSequence(origRoot) /\ IsSequence(modRoot)) =>
        \A i \in NewItems :
            /\ diff # Nil
            /\ \E k \in 1..Len(diff.Content) : diff.Content[k] = modRoot.Content[i]

\* C22, the divergence reached: original is a sequence of one empty mapping,
\* modified a sequence of one mapping with a key, and the diff is empty
DroppedMappingItemWitness ==
    /\ pc = "diffed" /\ IsSequence(origRoot) /\ IsSequence(modRoot)
    /\ Len(origRoot.Content) = 1 /\ Len(modRoot.Content) = 1
    /\ IsMapping(origRoot.Content[1]) /\ Len(origRoot.Content[1].Content) = 0
    /\ IsMapping(modRoot.Content[1]) /\ Len(modRoot.Content[1].Content) = 2
    /\ NewItems = {1}
    /\ diff = Nil

\* ---- the paths of the nodes of one tree

\* two nodes of the tree n that Capture and Apply reach with one path
Twins(n) ==
    {pq \in Positions(n) \X Positions(n) :
        pq[1] # pq[2] /\ PathAt(n, pq[1], <<>>) = PathAt(n, pq[2], <<>>)}

\* C23: within the fragment Capture walks and within the target Apply walks,
\* two distinct nodes never have the same path
PathIsInjective ==
    /\ (pc = "copied" => Twins(sourceNode) = {})
    /\ (pc = "loop" /\ idx > 0 => Twins(targetNode) = {})

\* C23, the divergence reached (keys of the same name under different
\* parents): of a: {k: v}, b: {k: w} the fragment had a comment on the k under
\* b only, and after Apply both keys k of the target carry it
SameKeyTwinsWitness ==
    /\ pc = "loop" /\ idx = 1
    /\ <<<<1, 2, 1>>, <<1, 4, 1>>>> \in Twins(targetNode)
    /\ NodeAt(sourceNode, <<1, 2, 1>>).HeadComment = <<>>
    /\ NodeAt(sourceNode, <<1, 4, 1>>).HeadComment = <<"#", "f">>
    /\ NodeAt(targetNode, <<1, 2, 1>>).HeadComment = <<"#", "f">>
    /\ NodeAt(targetNode, <<1, 4, 1>>).HeadComment = <<"#", "f">>

\* ---- a marker under every removed key

\* the subtree n holds a Deletion Marker
HasMarker(n) == \E p \in PathsOf(n) : NodeAtPath(n, p) = DeletionMarker

\* C24: of two mappings, every key original has and modified lacks is in the
\* patch, with at least one Deletion Marker in the subtree under it
EveryRemovedKeyHasAMarker ==
    (pc = "diffed" /\ IsMapping(origRoot) /\ IsMapping(modRoot)) =>
        \A i \in 1..Len(RemovedKeys) :
            /\ diff # Nil
            /\ RemovedKeys[i] \in KeySet(diff)
            /\ HasMarker(ValueOf(diff, RemovedKeys[i]))

\* C24, the divergence reached: the removed key held an empty mapping and the
\* patch holds an empty mapping under it, without a marker
RemovedEmptyMappingWitness ==
    /\ pc = "diffed" /\ IsMapping(origRoot) /\ IsMapping(modRoot)
    /\ \E i \in 1..Len(RemovedKeys) :
          /\ ValueOf(origRoot, RemovedKeys[i]) = EmptyMapping
          /\ diff # Nil
          /\ ValueOf(diff, RemovedKeys[i]) = EmptyMapping
          /\ MarkerPaths = {}

\* ---- the globals after a file

\* a ProcessFile step that returned no error
FileProcessed == pc = "files" /\ filesDone' = filesDone + 1

\* C25: with owerwrite and no nodes on the command line, after each call that
\* succeeds the global node list is the node list of that file's modeline
GlobalNodesAreTheFilesNodes ==
    [][(FileProcessed /\ flags.owerwrite /\ Len(args.Nodes) = 0) =>
          GlobalArgs'.Nodes = config'.Nodes
      ]_vars

\* C25, the divergence reached: the second file's modeline names no node, its
\* call succeeded, and the global node list is still the first file's
EarlierNodesWitness ==
    /\ pc = "files" /\ filesDone = 2
    /\ flags.owerwrite /\ Len(args.Nodes) = 0
    /\ cmdErr = NoError
    /\ config # Nil /\ config.Nodes = <<>>
    /\ GlobalArgs.Nodes = ParseModeline(configFiles[1][1]).config.Nodes
    /\ GlobalArgs.Nodes = <<<<"a">>>>

\* C26: nodes given on the command line stay the global node list, and
\* endpoints given on the command line the global endpoint list, whatever
\* files are processed
ArgsAreNeverOverridden ==
    /\ (Len(args.Nodes) > 0 => GlobalArgs.Nodes = args.Nodes)
    /\ (Len(args.Endpoints) > 0 => GlobalArgs.Endpoints = args.Endpoints)

\* C26 witness: two files naming nodes and endpoints were processed, with
\* both lists given on the command line
ArgsKeptWitness ==
    /\ pc = "done" /\ filesDone = 2
    /\ Len(args.Nodes) > 0 /\ Len(args.Endpoints) > 0
    /\ config # Nil /\ config.Nodes = <<<<"a">>>> /\ config.Endpoints = <<<<"b">>>>
    /\ GlobalArgs = args

\* ---- DiffYAMLs on any two texts

\* C27: DiffYAMLs of two texts that parse returns bytes or an error; it never
\* panics, a text without a document included
DiffYAMLsNeverPanics ==
    (pc # "begin" /\ configOrigin.ok /\ configFull.ok) => pc = "returned"

\* C27, the divergence reached: original is a text without a document,
\* modified a document, and the call panicked
EmptyDocumentPanicsWitness ==
    /\ pc = "panicked"
    /\ configOrigin = EmptyText
    /\ configFull.ok /\ configFull.node.Kind = DocumentNode
    /\ output = Nil /\ err = NoError

\* ---- lines ParseModeline refuses

\* the line was written without the prefix, with a part that has no '=', or
\* with a value that is not a JSON array of strings
WrittenBadly ==
    \/ TrimLeft(written.prefix) # ModelinePrefix
    \/ \E i \in 1..Len(written.parts) :
          ~written.parts[i].eq \/ ~written.parts[i].value.array

\* C28: of such a line ParseModeline returns an error and no Config
BadLinesAreRefused ==
    (pc = "parsed" /\ WrittenBadly) => (parseErr # NoError /\ config = Nil)

\* C28, the divergence reached: the line '# talm: nodes=null' is parsed
\* without an error, into a Config without nodes
NullValueWitness ==
    /\ pc = "parsed"
    /\ line = ModelinePrefix \o KeyNodes \o <<"=">> \o JSONNull
    /\ WrittenBadly
    /\ parseErr = NoError /\ config = EmptyConfig

\* ---- a generated line, parsed again

\* C29: ParseModeline of the line GenerateModeline wrote of three lists
\* returns no error and a Config with the same three lists
GeneratedLineParsesBack ==
    pc = "parsed" =>
        /\ parseErr = NoError
        /\ config = [Nodes |-> written.nodes.items,
                     Endpoints |-> written.endpoints.items,
                     Templates |-> written.templates.items]

\* C29, the divergence reached: the one node 'a, b' was written and the line
\* is refused
CommaInStringWitness ==
    /\ pc = "parsed"
    /\ written.nodes.items = <<<<"a", ",", " ", "b">>>>
    /\ written.endpoints.items = <<>> /\ written.templates.items = <<>>
    /\ parseErr # NoError /\ config = Nil

====
